---- MODULE Spec2Model ----
(***************************************************************************)
(* A model of pypi_crawler.py: GitHubActionsPyPICrawler.                   *)
(*                                                                         *)
(* Sizes are kept in bytes.  The program keeps them as size/(1024*1024)    *)
(* (a float, in MB); every size it compares or adds here is a multiple of  *)
(* 2^-20 MB below 2^11 MB, which a double holds exactly, so comparing and  *)
(* adding the byte counts is the same computation.                         *)
(***************************************************************************)
EXTENDS Integers, Sequences, FiniteSets, TLC

\* ------------------------------------------------------------------ bounds
MaxCandidates == 3      \* longest package_list passed to crawl_and_download
MaxFiles == 2           \* most release files of a descriptor's latest version
MaxItems == 2           \* most <item> elements of a feed document

\* ------------------------------------------------------- program constants
MaxTotalSizeMb == 500   \* self.max_total_size_mb
CutoffYear == 2025      \* datetime(2025, 7, 1, ...)
CutoffMonth == 7
CutoffDay == 1

BytesPerMB == 1024 * 1024

MB(n) == n * BytesPerMB

\* Constructor arguments the sessions are run with (max_packages, max_size_mb).
MaxPackagesChoices == {0, 1, 2}
MaxSizeMbChoices == {1, 300}

\* ----------------------------------------------------------------- helpers
Min(a, b) == IF a <= b THEN a ELSE b

\* s[:n] for n >= 0
Take(s, n) == SubSeq(s, 1, Min(n, Len(s)))

Range(s) == {s[k] : k \in 1..Len(s)}

\* All sequences over S of length lo..hi
SeqsOf(S, lo, hi) == UNION {[1..n -> S] : n \in lo..hi}

NoDuplicates(s) == \A a, b \in 1..Len(s) : s[a] = s[b] => a = b

\* ------------------------------------------------------------- timestamps
\* The text of an upload_time_iso_8601 field, by its lexical parts: form is
\* "iso" for a well-formed ISO-8601 text and "garbage" for any other text;
\* tz is the written suffix: "Z", "" (none) or a numeric offset, tzmin being
\* the minutes of the numeric offset.
IsoText(y, mo, d, h, mi, s, us, tz, tzmin) ==
    [form |-> "iso", y |-> y, mo |-> mo, d |-> d, h |-> h, mi |-> mi, s |-> s,
     us |-> us, tz |-> tz, tzmin |-> tzmin]

GarbageText == [form |-> "garbage", y |-> 0, mo |-> 0, d |-> 0, h |-> 0, mi |-> 0,
                s |-> 0, us |-> 0, tz |-> "", tzmin |-> 0]

\* An upload_time_iso_8601 field whose value is null (None)
NullText == [form |-> "null", y |-> 0, mo |-> 0, d |-> 0, h |-> 0, mi |-> 0,
             s |-> 0, us |-> 0, tz |-> "", tzmin |-> 0]

\* upload_time.replace('Z', '+00:00')
ReplaceZ(text) ==
    IF text.tz = "Z" THEN [text EXCEPT !.tz = "offset", !.tzmin = 0] ELSE text

\* datetime.fromisoformat: the datetime's fields and its tzinfo (aware: a fixed
\* offset in minutes; naive: none).  Raises ValueError on any other text.
FromIsoFormatRaises(text) == text.form # "iso"

FromIsoFormat(text) ==
    [y |-> text.y, mo |-> text.mo, d |-> text.d, h |-> text.h, mi |-> text.mi,
     s |-> text.s, us |-> text.us,
     aware |-> (text.tz = "offset"), offset |-> text.tzmin]

\* datetime(2025, 7, 1, tzinfo=tz): midnight on the wall clock of tz
CutoffDate(dt) ==
    [y |-> CutoffYear, mo |-> CutoffMonth, d |-> CutoffDay, h |-> 0, mi |-> 0,
     s |-> 0, us |-> 0, aware |-> dt.aware, offset |-> dt.offset]

Fields(dt) == <<dt.y, dt.mo, dt.d, dt.h, dt.mi, dt.s, dt.us>>

RECURSIVE LexGE(_, _)
LexGE(a, b) ==
    IF Len(a) = 0 THEN TRUE
    ELSE IF Head(a) # Head(b) THEN Head(a) > Head(b)
    ELSE LexGE(Tail(a), Tail(b))

\* a >= b for two datetimes that carry the same tzinfo object (both naive, or
\* both with the tzinfo of a): Python compares their fields.
DatetimeGE(a, b) == LexGE(Fields(a), Fields(b))

\* ------------------------------------------------------------ descriptors
\* A release file record of the index: filename (stem and suffix), the
\* declared size (has_size: the 'size' key is present) and the upload time
\* (has_time: the 'upload_time_iso_8601' key is present).
ReleaseFile(stem, ext, has_size, size, has_time, time) ==
    [filename |-> [stem |-> stem, ext |-> ext], has_size |-> has_size,
     size |-> size, has_time |-> has_time, upload_time |-> time]

\* A package descriptor (package_info): has_info/has_version/has_releases say
\* whether the keys 'info', info['version'] and 'releases' are there, listed
\* whether releases has the key of the latest version, files is
\* releases[latest_version], meta_ok whether info holds summary, author,
\* license and home_page; null_key names the one of 'info', 'version',
\* 'releases' whose value is null ("" when none is).
Descriptor(files, listed, meta_ok) ==
    [has_info |-> TRUE, has_version |-> TRUE, has_releases |-> TRUE,
     listed |-> listed, files |-> files, meta_ok |-> meta_ok, null_key |-> ""]

EndsWith(filename, suffix) == filename.ext = suffix

\* is_updated_since_july_2025 raises: an exception that is none of KeyError,
\* ValueError, IndexError leaves the function.  None['version'] and
\* `latest_version in None` are TypeErrors, None.replace an AttributeError.
IsUpdatedRaises(package_info) ==
    IF ~package_info.has_info THEN FALSE         \* KeyError first
    ELSE IF package_info.null_key = "info" THEN TRUE
    ELSE IF ~(package_info.has_version /\ package_info.has_releases) THEN FALSE
    ELSE IF package_info.null_key = "releases" THEN TRUE
    ELSE IF package_info.null_key = "version" \/ ~package_info.listed THEN FALSE
    ELSE IF package_info.files = <<>> THEN FALSE
    ELSE LET first == package_info.files[1] IN
         first.has_time /\ first.upload_time.form = "null"

\* is_updated_since_july_2025, what it returns when it does not raise
IsUpdatedSinceJuly2025(package_info) ==
    IF ~(package_info.has_info /\ package_info.has_version
         /\ package_info.has_releases)
    THEN FALSE                                   \* KeyError, caught
    ELSE IF package_info.null_key # "" THEN FALSE    \* None in releases
    ELSE IF ~package_info.listed THEN FALSE
    ELSE IF package_info.files = <<>> THEN FALSE
    ELSE LET first == package_info.files[1] IN
         IF ~first.has_time THEN FALSE           \* KeyError, caught
         ELSE LET text == ReplaceZ(first.upload_time) IN
              IF FromIsoFormatRaises(text) THEN FALSE   \* ValueError, caught
              ELSE LET upload_date == FromIsoFormat(text)
                       cutoff_date == CutoffDate(upload_date)
                   IN  DatetimeGE(upload_date, cutoff_date)

\* get_file_size_mb, in bytes: file_info.get('size', 0)
GetFileSize(file_info) == IF file_info.has_size THEN file_info.size ELSE 0

\* file_size_mb <= self.max_size_mb, with a wrong cap
FitsFileCapWrongCap(file_info, max_size_mb) ==
    GetFileSize(file_info) <= MB(MaxTotalSizeMb)

\* file_size_mb <= self.max_size_mb
FitsFileCap(file_info, max_size_mb) ==
    GetFileSize(file_info) <= MB(max_size_mb)

\* The index of the first file of releases with the suffix that fits the
\* per-file cap, 0 when there is none (the for ... break loops).
FirstSuitable(releases, suffix, max_size_mb) ==
    LET hits == {k \in 1..Len(releases) :
                    /\ EndsWith(releases[k].filename, suffix)
                    /\ FitsFileCap(releases[k], max_size_mb)}
    IN  IF hits = {} THEN 0 ELSE CHOOSE k \in hits : \A j \in hits : k <= j

\* The selection with the two scans in the other order
SelectFileWheelFirst(releases, max_size_mb) ==
    LET whl == FirstSuitable(releases, ".whl", max_size_mb) IN
    IF whl # 0 THEN whl ELSE FirstSuitable(releases, ".tar.gz", max_size_mb)

\* suitable_file: .tar.gz first, then .whl; 0 when nothing is suitable
SelectFile(releases, max_size_mb) ==
    LET sdist == FirstSuitable(releases, ".tar.gz", max_size_mb) IN
    IF sdist # 0 THEN sdist ELSE FirstSuitable(releases, ".whl", max_size_mb)

\* The existence check that never finds the file
FileExistsNever(filename, st) == FALSE

\* os.path.exists(file_path)
FileExists(filename, st) == filename \in st

\* The increment that overwrites the total with the file's size
TotalAfterWriteOverwrite(total, size) == size

\* The aggregate check that refuses a file that fills the cap exactly
ExceedsTotalLimitAtEquality(total, size) == total + size >= MB(MaxTotalSizeMb)

\* The aggregate check that forgets the file being admitted
ExceedsTotalLimitIgnoringFile(total, size) == total > MB(MaxTotalSizeMb)

\* self.current_total_size + file_size_mb > self.max_total_size_mb
ExceedsTotalLimit(total, size) == total + size > MB(MaxTotalSizeMb)

\* The total when the budget is reserved before the fetch
TotalAfterFailedFetchReserved(total, size) == total + size

\* current_total_size after session.get / raise_for_status raised: the
\* increment of line 116 was not reached
TotalAfterFailedFetch(total, size) == total

\* self.current_total_size += file_size_mb
TotalAfterWrite(total, size) == total + size

\* The outcome of one download_package call: what it returned, the state it
\* left, the index in releases of suitable_file (0: none), whether it issued
\* the download request and whether it wrote the artifact file
Outcome(result, total, st, sc, chosen, requested, wrote) ==
    [result |-> result, total |-> total, store |-> st, sidecars |-> sc,
     chosen |-> chosen, requested |-> requested, wrote |-> wrote]

\* download_package(package_name, package_info) from consumed total `total`,
\* artifact files `st` and sidecar files `sc`; net is what the download request
\* does if one is issued ("ok", or "fail" for a transport error or a
\* non-success status).
DownloadPackage(package_name, package_info, total, st, sc, max_size_mb, net) ==
    IF ~(package_info.has_info /\ package_info.has_version
         /\ package_info.has_releases /\ package_info.listed
         /\ package_info.null_key = "")
    THEN Outcome(FALSE, total, st, sc, 0, FALSE, FALSE)      \* raised, caught
    ELSE
    LET releases == package_info.files
        suitable == SelectFile(releases, max_size_mb)
    IN
    IF suitable = 0 THEN Outcome(FALSE, total, st, sc, 0, FALSE, FALSE)
    ELSE
    LET file == releases[suitable]
        size == GetFileSize(file)
    IN
    IF ExceedsTotalLimit(total, size)
    THEN Outcome(FALSE, total, st, sc, suitable, FALSE, FALSE)
    ELSE IF FileExists(file.filename, st)
    THEN Outcome(TRUE, total, st, sc, suitable, FALSE, FALSE)
    ELSE IF net = "fail"
    THEN Outcome(FALSE, TotalAfterFailedFetch(total, size), st, sc,
                 suitable, TRUE, FALSE)
    ELSE
    LET st2 == st \cup {file.filename}
        total2 == TotalAfterWrite(total, size)
    IN
    IF ~package_info.meta_ok
    THEN Outcome(FALSE, total2, st2, sc, suitable, TRUE, TRUE)  \* KeyError in
                                                  \* save_package_metadata
    ELSE Outcome(TRUE, total2, st2, sc \cup {package_name}, suitable, TRUE, TRUE)

\* ------------------------------------------------------------------ feeds
\* get_popular_packages_fallback
PopularPackages ==
    <<"requests", "urllib3", "certifi", "charset-normalizer",
      "pip", "setuptools", "wheel", "packaging",
      "numpy", "pandas", "matplotlib", "scipy",
      "flask", "django", "fastapi", "starlette",
      "boto3", "botocore", "aws-cdk-lib", "aws-cli",
      "tensorflow", "torch", "transformers", "openai",
      "pydantic", "sqlalchemy", "alembic", "click",
      "pytest", "black", "flake8", "mypy",
      "jupyter", "notebook", "ipython", "ipykernel">>

\* An <item> of a feed: has_title says whether it has a <title> child; text is
\* the title's text as its sequence of tokens, each a run of whitespace (" ")
\* or a run of other characters (<<>> is an empty or absent text).
Item(has_title, text) == [has_title |-> has_title, text |-> text]

\* A feed response: status "error" is a transport error, a non-success status
\* or a document ElementTree cannot parse; otherwise items are its <item>s.
Feed(status, items) == [status |-> status, items |-> items]

\* title.text.split()
Split(text) == SelectSeq(text, LAMBDA tok : tok # " ")

\* The for-item loop of one feed from item k on, over the list accumulated so
\* far: the list it leaves and whether it raised (split()[0] on a title of
\* whitespace only is an IndexError, which leaves the loop at that item).
RECURSIVE ExtractItems(_, _, _)
ExtractItems(items, k, packages) ==
    IF k > Len(items) THEN [packages |-> packages, raised |-> FALSE]
    ELSE LET item == items[k] IN
         IF item.has_title /\ item.text # <<>>
         THEN IF Split(item.text) = <<>>
              THEN [packages |-> packages, raised |-> TRUE]
              ELSE LET package_name == Split(item.text)[1] IN
                   IF package_name \notin Range(packages)
                   THEN ExtractItems(items, k + 1, Append(packages, package_name))
                   ELSE ExtractItems(items, k + 1, packages)
         ELSE ExtractItems(items, k + 1, packages)

\* One pass of the for-rss_url loop body: the try block on one feed
TryFeed(feed, packages) ==
    IF feed.status = "error" THEN [packages |-> packages, raised |-> TRUE]
    ELSE ExtractItems(feed.items, 1, packages)

\* The list the next feed's pass starts from: packages is created once, before
\* the loop, and is not emptied between the feeds
StartOfNextFeed(packages) == packages

\* get_recent_packages_from_rss, given the responses of the two feeds
GetRecentPackagesFromRss(primary, secondary, max_packages) ==
    LET first == TryFeed(primary, <<>>) IN
    IF ~first.raised /\ first.packages # <<>>
    THEN Take(first.packages, max_packages)
    ELSE LET second == TryFeed(secondary, StartOfNextFeed(first.packages)) IN
         IF ~second.raised /\ second.packages # <<>>
         THEN Take(second.packages, max_packages)
         ELSE Take(PopularPackages, max_packages)

\* create_summary_report: round(self.current_total_size, 2), in hundredths of
\* a MB.  The total is an exact multiple of 2^-20 MB, so round() rounds the
\* exact value, ties to even.
RoundHundredths(bytes) ==
    LET q == bytes \div BytesPerMB
        r == bytes % BytesPerMB
        h == (r * 100) \div BytesPerMB
        rem == (r * 100) % BytesPerMB
        up == \/ 2 * rem > BytesPerMB
              \/ 2 * rem = BytesPerMB /\ h % 2 = 1
    IN  q * 100 + h + (IF up THEN 1 ELSE 0)

Report(downloaded_packages, total) ==
    [total_packages_downloaded |-> Len(downloaded_packages),
     total_size_hundredths |-> RoundHundredths(total),
     packages |-> downloaded_packages]

\* ---------------------------------------------------------------- the state
VARIABLES
    max_packages,           \* self.max_packages
    max_size_mb,            \* self.max_size_mb
    current_total_size,     \* self.current_total_size, in bytes
    store,                  \* filenames of the artifact files in download_dir
    sidecars,               \* package names with a <name>_metadata.json file
    pc,                     \* where crawl_and_download is: idle, loop, done
                            \*   (it returned), crashed (an exception left it)
    package_list,           \* the candidate list of the session
    idx,                    \* the loop's position in package_list (i)
    downloaded_packages,    \* the local list of crawl_and_download
    downloaded_count,       \* the local counter of crawl_and_download
    events,                 \* what the session did, in order: <<kind, i>> with
                            \*   kind fetch (get_package_info), filter, download,
                            \*   success (download_package returned True), sleep
    dl_info,                \* the latest download_package call: its descriptor,
    last,                   \*   its other inputs and its outcome
    report,                 \* the reports written (create_summary_report)
    written,                \* the release files fetched and written so far
    rss_primary,            \* a get_recent_packages_from_rss call: the feeds'
    rss_secondary,          \*   responses
    rss_result,             \*   and what it returned ([called, value])
    el_info,                \* an is_updated_since_july_2025 call: its argument
    el_result               \*   and what it returned ([called, value])

session_vars == <<max_packages, max_size_mb, current_total_size, store, sidecars,
                  pc, package_list, idx, downloaded_packages, downloaded_count,
                  events, dl_info, last, report, written>>
rss_vars == <<rss_primary, rss_secondary, rss_result>>
el_vars == <<el_info, el_result>>
vars == <<session_vars, rss_vars, el_vars>>

NoCall == [called |-> FALSE]
NotCalled == "not called"

\* ----------------------------------------------------- inputs of a session
Names == {"alpha", "beta"}

\* The cutoff instant written in UTC, and one microsecond before it
AtCutoffZ == IsoText(2025, 7, 1, 0, 0, 0, 0, "Z", 0)
BeforeCutoffZ == IsoText(2025, 6, 30, 23, 59, 59, 999999, "Z", 0)

\* Release files of the index
Sdist300 == ReleaseFile("alpha-2.0", ".tar.gz", TRUE, MB(300), TRUE, AtCutoffZ)
Sdist200 == ReleaseFile("beta-2.0", ".tar.gz", TRUE, MB(200), TRUE, AtCutoffZ)
SdistOver == ReleaseFile("gamma-2.0", ".tar.gz", TRUE, MB(300) + 1, TRUE, AtCutoffZ)
Wheel1 == ReleaseFile("alpha-2.0-py3-none-any", ".whl", TRUE, MB(1), TRUE, AtCutoffZ)
WheelOver == ReleaseFile("beta-2.0-py3-none-any", ".whl", TRUE, MB(1) + 1, TRUE, AtCutoffZ)
Zip1 == ReleaseFile("alpha-2.0", ".zip", TRUE, MB(1), TRUE, AtCutoffZ)
SdistNoSize == ReleaseFile("delta-2.0", ".tar.gz", FALSE, 0, TRUE, AtCutoffZ)
SdistNegative == ReleaseFile("eps-2.0", ".tar.gz", TRUE, 0 - MB(1), TRUE, AtCutoffZ)

\* Files that may be in download_dir before the session
PreExisting == {Sdist300.filename}

\* The release-file lists the metadata endpoint answers with in a session
SessionFileLists ==
    { <<Sdist300>>, <<Wheel1, Sdist200>>, <<SdistOver, Wheel1>>, <<Zip1>>,
      <<SdistNoSize>>, <<SdistNegative>> }

\* The descriptors of a session: the first file's upload time is at the cutoff,
\* just before it, or null.
SessionDescriptors ==
    { Descriptor([fs EXCEPT ![1].upload_time = t], TRUE, m) :
        fs \in SessionFileLists, t \in {AtCutoffZ, BeforeCutoffZ, NullText},
        m \in BOOLEAN }

\* The lists passed to crawl_and_download: the first n candidates of
\* alpha, alpha, beta, alpha, alpha, beta, ...
Candidate(k) == IF k % 3 = 0 THEN "beta" ELSE "alpha"

PassedLists == {[k \in 1..n |-> Candidate(k)] : n \in 0..MaxCandidates}

TitleTexts ==
    { <<>>, <<" ">>, <<"alpha", " ", "1.0">>, <<"beta", " ", "2.0">>,
      <<" ", "beta">> }

Items == {Item(TRUE, t) : t \in TitleTexts} \cup {Item(FALSE, <<>>)}

Feeds == {Feed("ok", its) : its \in SeqsOf(Items, 0, MaxItems)}
         \cup {Feed("error", <<>>)}

\* The feed responses of a session
SessionFeeds ==
    { Feed("error", <<>>),
      Feed("ok", <<Item(TRUE, <<"alpha", " ", "1.0">>)>>),
      Feed("ok", <<Item(TRUE, <<"beta", " ", "2.0">>),
                   Item(TRUE, <<"alpha", " ", "1.0">>)>>) }

\* ------------------------------------------------------------- the session
SessionIdle ==
    /\ current_total_size = 0
    /\ sidecars = {}
    /\ pc = "idle"
    /\ package_list = <<>>
    /\ idx = 0
    /\ downloaded_packages = <<>>
    /\ downloaded_count = 0
    /\ events = <<>>
    /\ dl_info = NotCalled
    /\ last = NoCall
    /\ report = <<>>
    /\ written = <<>>

RssIdle ==
    /\ rss_primary = NotCalled
    /\ rss_secondary = NotCalled
    /\ rss_result = NoCall

ElIdle ==
    /\ el_info = NotCalled
    /\ el_result = NoCall

\* GitHubActionsPyPICrawler(download_dir, max_packages, max_size_mb)
Init ==
    /\ max_packages \in MaxPackagesChoices
    /\ max_size_mb \in MaxSizeMbChoices
    /\ store \in SUBSET PreExisting
    /\ SessionIdle
    /\ RssIdle
    /\ ElIdle

\* crawl_and_download up to the loop: an empty list returns at once
Begin(list) ==
    /\ pc = "idle"
    /\ package_list' = list
    /\ IF list = <<>>
       THEN pc' = "done" /\ idx' = idx
       ELSE pc' = "loop" /\ idx' = 1
    /\ UNCHANGED <<max_packages, max_size_mb, current_total_size, store, sidecars,
                   downloaded_packages, downloaded_count, events, dl_info, last,
                   report, written>>
    /\ UNCHANGED <<rss_vars, el_vars>>

\* crawl_and_download(package_list)
StartWithList == \E list \in PassedLists : Begin(list)

\* crawl_and_download(): the list comes from get_recent_packages_from_rss
StartFromFeeds ==
    \E primary, secondary \in SessionFeeds :
        Begin(GetRecentPackagesFromRss(primary, secondary, max_packages))

\* downloaded_count > self.max_packages
LimitReachedStrict(count, limit) == count > limit

\* downloaded_count >= self.max_packages
LimitReached(count, limit) == count >= limit

InLoop ==
    /\ pc = "loop"
    /\ idx <= Len(package_list)
    /\ ~LimitReached(downloaded_count, max_packages)

\* get_package_info returned None: continue
IterAbsent ==
    /\ InLoop
    /\ events' = Append(events, <<"fetch", idx>>)
    /\ idx' = idx + 1
    /\ UNCHANGED <<max_packages, max_size_mb, current_total_size, store, sidecars,
                   pc, package_list, downloaded_packages, downloaded_count,
                   dl_info, last, report, written>>
    /\ UNCHANGED <<rss_vars, el_vars>>

\* is_updated_since_july_2025 returned False: continue
IterIneligible ==
    /\ InLoop
    /\ \E package_info \in SessionDescriptors :
          ~IsUpdatedRaises(package_info) /\ ~IsUpdatedSinceJuly2025(package_info)
    /\ events' = events \o <<(<<"fetch", idx>>), (<<"filter", idx>>)>>
    /\ idx' = idx + 1
    /\ UNCHANGED <<max_packages, max_size_mb, current_total_size, store, sidecars,
                   pc, package_list, downloaded_packages, downloaded_count,
                   dl_info, last, report, written>>
    /\ UNCHANGED <<rss_vars, el_vars>>

\* is_updated_since_july_2025 raised: the exception leaves crawl_and_download
IterCrash ==
    /\ InLoop
    /\ \E package_info \in SessionDescriptors : IsUpdatedRaises(package_info)
    /\ events' = events \o <<(<<"fetch", idx>>), (<<"filter", idx>>)>>
    /\ pc' = "crashed"
    /\ UNCHANGED <<max_packages, max_size_mb, current_total_size, store, sidecars,
                   package_list, idx, downloaded_packages, downloaded_count,
                   dl_info, last, report, written>>
    /\ UNCHANGED <<rss_vars, el_vars>>

\* The record of a download_package call
Call(package_name, total, st, sc, net, out) ==
    [called |-> TRUE, name |-> package_name, before_total |-> total,
     before_store |-> st, before_sidecars |-> sc, net |-> net, out |-> out]

\* The files written so far after a download_package call: the selected file
\* joins them when the call got past the write of lines 113-114
WrittenAfter(files, package_info, out) ==
    IF out.wrote THEN Append(files, package_info.files[out.chosen]) ELSE files

\* The rest of the loop body: download_package, the bookkeeping, the sleep
IterDownload ==
    /\ InLoop
    /\ \E package_info \in SessionDescriptors, net \in {"ok", "fail"} :
          /\ ~IsUpdatedRaises(package_info)
          /\ IsUpdatedSinceJuly2025(package_info)
          /\ LET package_name == package_list[idx]
                 out == DownloadPackage(package_name, package_info,
                                        current_total_size, store, sidecars,
                                        max_size_mb, net)
             IN  /\ current_total_size' = out.total
                 /\ store' = out.store
                 /\ sidecars' = out.sidecars
                 /\ dl_info' = package_info
                 /\ last' = Call(package_name, current_total_size, store,
                                 sidecars, net, out)
                 /\ written' = WrittenAfter(written, package_info, out)
                 /\ IF out.result
                    THEN /\ downloaded_packages' =
                                Append(downloaded_packages, package_name)
                         /\ downloaded_count' = downloaded_count + 1
                    ELSE UNCHANGED <<downloaded_packages, downloaded_count>>
                 /\ events' = events
                        \o <<(<<"fetch", idx>>), (<<"filter", idx>>),
                             (<<"download", idx>>)>>
                        \o (IF out.result THEN <<(<<"success", idx>>)>> ELSE <<>>)
                        \o <<(<<"sleep", idx>>)>>
    /\ idx' = idx + 1
    /\ UNCHANGED <<max_packages, max_size_mb, pc, package_list, report>>
    /\ UNCHANGED <<rss_vars, el_vars>>

\* The loop ends (the list is exhausted, or the break): create_summary_report
Finish ==
    /\ pc = "loop"
    /\ idx > Len(package_list) \/ LimitReached(downloaded_count, max_packages)
    /\ report' = Append(report, Report(downloaded_packages, current_total_size))
    /\ pc' = "done"
    /\ UNCHANGED <<max_packages, max_size_mb, current_total_size, store, sidecars,
                   package_list, idx, downloaded_packages, downloaded_count,
                   events, dl_info, last, written>>
    /\ UNCHANGED <<rss_vars, el_vars>>

Next ==
    \/ StartWithList
    \/ StartFromFeeds
    \/ IterAbsent
    \/ IterIneligible
    \/ IterCrash
    \/ IterDownload
    \/ Finish

Spec == Init /\ [][Next]_vars

\* ------------------------------------------- download_package called directly
MaxCalls == 2           \* most download_package calls in a row

\* Release files a descriptor may list
DownloadFiles ==
    { Sdist300, Sdist200, SdistOver, Wheel1, WheelOver, Zip1, SdistNoSize,
      SdistNegative }

\* The descriptors download_package is called with: every list of up to
\* MaxFiles release files, and one whose releases lack the latest version
DownloadDescriptors ==
    { Descriptor(fs, TRUE, m) :
        fs \in SeqsOf(DownloadFiles, 0, MaxFiles), m \in BOOLEAN }
    \cup { Descriptor(<<>>, FALSE, TRUE) }

\* download_package(package_name, package_info) on a crawler
DirectCall(package_name, package_info, net) ==
    LET out == DownloadPackage(package_name, package_info, current_total_size,
                               store, sidecars, max_size_mb, net)
    IN  /\ pc = "idle"
        /\ Len(events) < MaxCalls
        /\ current_total_size' = out.total
        /\ store' = out.store
        /\ sidecars' = out.sidecars
        /\ dl_info' = package_info
        /\ last' = Call(package_name, current_total_size, store, sidecars, net, out)
        /\ written' = WrittenAfter(written, package_info, out)
        /\ events' = Append(events, <<"download", Len(events) + 1>>)
        /\ UNCHANGED <<max_packages, max_size_mb, pc, package_list, idx,
                       downloaded_packages, downloaded_count, report>>
        /\ UNCHANGED <<rss_vars, el_vars>>

\* The first call, with any descriptor
FirstDownload ==
    /\ ~last.called
    /\ \E package_info \in DownloadDescriptors, net \in {"ok", "fail"} :
          DirectCall("alpha", package_info, net)

\* The call again, for the same candidate and descriptor
RepeatDownload ==
    /\ last.called
    /\ \E net \in {"ok", "fail"} : DirectCall(last.name, dl_info, net)

NextDownload == FirstDownload \/ RepeatDownload

SpecDownload == Init /\ [][NextDownload]_vars

\* ------------------------------------ get_recent_packages_from_rss by itself
\* A crawler and the responses the two feeds will give
InitRss ==
    /\ max_packages \in MaxPackagesChoices
    /\ max_size_mb = 1
    /\ store = {}
    /\ SessionIdle
    /\ rss_primary \in Feeds
    /\ rss_secondary \in Feeds
    /\ rss_result = NoCall
    /\ ElIdle

\* get_recent_packages_from_rss()
RssCall ==
    /\ ~rss_result.called
    /\ rss_result' =
          [called |-> TRUE,
           value |-> GetRecentPackagesFromRss(rss_primary, rss_secondary,
                                              max_packages)]
    /\ UNCHANGED <<session_vars, rss_primary, rss_secondary, el_vars>>

SpecRss == InitRss /\ [][RssCall]_vars

\* ------------------------------------- is_updated_since_july_2025 by itself
EligDates == {<<2024, 12, 31>>, <<2025, 6, 30>>, <<2025, 7, 1>>, <<2026, 1, 1>>}

EligClocks ==
    {<<0, 0, 0, 0>>, <<4, 59, 59, 999999>>, <<5, 0, 0, 0>>,
     <<23, 59, 59, 999999>>}

\* The written time zones: Z, +00:00, +05:00, -08:00 and none
EligZones ==
    {<<"Z", 0>>, <<"offset", 0>>, <<"offset", 300>>, <<"offset", 0 - 480>>,
     <<"", 0>>}

EligTimes ==
    { IsoText(d[1], d[2], d[3], c[1], c[2], c[3], c[4], z[1], z[2]) :
        d \in EligDates, c \in EligClocks, z \in EligZones }

TimedFile(t) ==
    ReleaseFile("alpha-2.0", ".tar.gz", TRUE, MB(1), TRUE, t)

\* The descriptors is_updated_since_july_2025 is called with
EligDescriptors ==
    { Descriptor(<<TimedFile(t)>>, TRUE, TRUE) : t \in EligTimes }
    \cup { Descriptor(<<TimedFile(t), TimedFile(u)>>, TRUE, TRUE) :
             t, u \in {AtCutoffZ, BeforeCutoffZ} }
    \cup { Descriptor(<<TimedFile(GarbageText)>>, TRUE, TRUE),
           Descriptor(<<ReleaseFile("alpha-2.0", ".tar.gz", TRUE, MB(1), FALSE,
                                    GarbageText)>>, TRUE, TRUE),
           Descriptor(<<>>, TRUE, TRUE),
           Descriptor(<<TimedFile(AtCutoffZ)>>, FALSE, TRUE),
           [Descriptor(<<TimedFile(AtCutoffZ)>>, TRUE, TRUE)
               EXCEPT !.has_info = FALSE],
           [Descriptor(<<TimedFile(AtCutoffZ)>>, TRUE, TRUE)
               EXCEPT !.has_version = FALSE],
           [Descriptor(<<TimedFile(AtCutoffZ)>>, TRUE, TRUE)
               EXCEPT !.has_releases = FALSE] }
    \cup { [Descriptor(<<TimedFile(AtCutoffZ)>>, TRUE, TRUE)
               EXCEPT !.null_key = k] : k \in {"info", "version", "releases"} }
    \cup { Descriptor(<<TimedFile(NullText)>>, TRUE, TRUE),
           [Descriptor(<<TimedFile(AtCutoffZ)>>, TRUE, TRUE)
               EXCEPT !.has_info = FALSE, !.null_key = "releases"] }

InitElig ==
    /\ max_packages = 1
    /\ max_size_mb = 1
    /\ store = {}
    /\ SessionIdle
    /\ RssIdle
    /\ el_info \in EligDescriptors
    /\ el_result = NoCall

\* is_updated_since_july_2025(package_info)
EligCall ==
    /\ ~el_result.called
    /\ el_result' = [called |-> TRUE, raised |-> IsUpdatedRaises(el_info),
                      value |-> IsUpdatedSinceJuly2025(el_info)]
    /\ UNCHANGED <<session_vars, rss_vars, el_info>>

SpecElig == InitElig /\ [][EligCall]_vars

\* ------------------------------------------------------------------ claims
\* What a claim calls the declared size of a release file
DeclaredSize(file) == IF file.has_size THEN file.size ELSE 0

\* The file the latest download_package call selected
ChosenFile == dl_info.files[last.out.chosen]

Selected == last.called /\ last.out.chosen # 0

\* The events before position k that are successes
SuccessesBefore(k) == {j \in 1..(k - 1) : events[j][1] = "success"}

\* C1: in every reachable state of a session the consumed total
\* current_total_size is at most the aggregate cap max_total_size_mb, and so is
\* the total of every report create_summary_report writes.
C1_TotalWithinCap ==
    /\ current_total_size <= MB(MaxTotalSizeMb)
    /\ \A k \in 1..Len(report) :
          report[k].total_size_hundredths <= MaxTotalSizeMb * 100

\* C1 witness: a session that filled the cap exactly, was then refused a file
\* for the cap, and reported the full cap
C1_Witness ==
    /\ Len(report) = 1
    /\ report[1].total_size_hundredths = MaxTotalSizeMb * 100
    /\ Selected /\ ~last.out.result /\ ~last.out.requested
    /\ last.before_total = MB(MaxTotalSizeMb)

\* C2: whenever the store already holds the selected file's filename,
\* download_package returns success, whatever the consumed total is.
C2_ExistingFileSucceeds ==
    (Selected /\ ChosenFile.filename \in last.before_store) => last.out.result

C4_StopsAtMaxPackages ==
    /\ downloaded_count <= max_packages
    /\ Cardinality({k \in 1..Len(events) : events[k][1] = "success"})
          <= max_packages
    /\ \A k \in 1..Len(events) :
          events[k][1] \in {"fetch", "filter", "download"}
              => Cardinality(SuccessesBefore(k)) < max_packages

\* C4 witness: max_packages = 2 and three candidates; the first two ended in
\* success, the session is over and the third was never evaluated
C4_Witness ==
    /\ pc = "done" /\ Len(report) = 1
    /\ max_packages = 2 /\ Len(package_list) = 3
    /\ downloaded_packages = SubSeq(package_list, 1, 2)
    /\ \E k \in 1..Len(events) : events[k] = <<"success", 1>>
    /\ \E k \in 1..Len(events) : events[k] = <<"success", 2>>
    /\ \A k \in 1..Len(events) : events[k][2] # 3

\* C5: every file download_package fetches and writes to the store has a
\* declared size of at most the per-file cap max_size_mb.
C5_WrittenFileWithinFileCap ==
    (last.called /\ last.out.wrote)
        => /\ last.out.chosen # 0
           /\ DeclaredSize(ChosenFile) <= MB(max_size_mb)

\* C5 witness: a written file whose declared size is exactly the per-file cap,
\* listed after a file over the cap
C5_Witness ==
    /\ last.called /\ last.out.wrote
    /\ DeclaredSize(ChosenFile) = MB(max_size_mb)
    /\ last.out.chosen = 2
    /\ DeclaredSize(dl_info.files[1]) > MB(max_size_mb)

UnderCap(file, suffix) ==
    file.filename.ext = suffix /\ DeclaredSize(file) <= MB(max_size_mb)

FirstUnderCap(files, k, suffix) ==
    /\ k \in 1..Len(files)
    /\ UnderCap(files[k], suffix)
    /\ \A j \in 1..(k - 1) : ~UnderCap(files[j], suffix)

\* C6: download_package selects the first source distribution (.tar.gz) of the
\* latest version, in list order, whose declared size is at most the per-file
\* cap; if there is none, the first such wheel (.whl); if there is neither,
\* it selects nothing and does not return success.
C6_Selection ==
    (last.called /\ dl_info.listed) =>
        LET files == dl_info.files
            anySdist == \E k \in 1..Len(files) : UnderCap(files[k], ".tar.gz")
            anyWheel == \E k \in 1..Len(files) : UnderCap(files[k], ".whl")
        IN  /\ anySdist => FirstUnderCap(files, last.out.chosen, ".tar.gz")
            /\ (~anySdist /\ anyWheel)
                  => FirstUnderCap(files, last.out.chosen, ".whl")
            /\ (~anySdist /\ ~anyWheel)
                  => (last.out.chosen = 0 /\ ~last.out.result)

\* C6 witness: a wheel under the cap listed before a source distribution under
\* the cap, and the source distribution selected
C6_Witness ==
    /\ last.called /\ Len(dl_info.files) = 2
    /\ UnderCap(dl_info.files[1], ".whl")
    /\ UnderCap(dl_info.files[2], ".tar.gz")
    /\ last.out.chosen = 2
    /\ last.out.wrote

\* What the claims say of a feed, apart from the code: it fails when its
\* request or its parse fails or when one of its titles is whitespace only.
WhitespaceOnly(text) == text # <<>> /\ \A k \in 1..Len(text) : text[k] = " "

FeedFails(feed) ==
    \/ feed.status = "error"
    \/ \E k \in 1..Len(feed.items) :
          feed.items[k].has_title /\ WhitespaceOnly(feed.items[k].text)

Named(item) ==
    item.has_title /\ \E k \in 1..Len(item.text) : item.text[k] # " "

\* The first whitespace-delimited token of a title
FirstToken(text) ==
    text[CHOOSE k \in 1..Len(text) :
            text[k] # " " /\ \A j \in 1..(k - 1) : text[j] = " "]

\* The identifiers a feed document names, one per named item, in item order
RECURSIVE NamesIn(_)
NamesIn(items) ==
    IF items = <<>> THEN <<>>
    ELSE IF Named(Head(items))
         THEN <<FirstToken(Head(items).text)>> \o NamesIn(Tail(items))
         ELSE NamesIn(Tail(items))

\* s without the later occurrences of its elements
RECURSIVE Dedup(_)
Dedup(s) ==
    IF s = <<>> THEN <<>>
    ELSE LET front == Dedup(SubSeq(s, 1, Len(s) - 1)) IN
         IF s[Len(s)] \in Range(front) THEN front ELSE Append(front, s[Len(s)])

\* The candidates a feed contributes: none when it fails
CandidatesOf(feed) ==
    IF FeedFails(feed) THEN <<>> ELSE Dedup(NamesIn(feed.items))

FirstIndex(s, x) == CHOOSE k \in 1..Len(s) : s[k] = x /\ \A j \in 1..(k - 1) : s[j] # x

\* r lists elements of src in the order of their first occurrence in src
InFirstOccurrenceOrder(r, src) ==
    /\ Range(r) \subseteq Range(src)
    /\ \A a, b \in 1..Len(r) :
          a < b => FirstIndex(src, r[a]) < FirstIndex(src, r[b])

\* C7: if each of the two feeds fails or yields zero candidates,
\* get_recent_packages_from_rss returns the static fallback list truncated to
\* its first max_packages entries.
C7_FallbackWhenBothFeedsEmpty ==
    (/\ rss_result.called
     /\ CandidatesOf(rss_primary) = <<>>
     /\ CandidatesOf(rss_secondary) = <<>>)
        => rss_result.value = Take(PopularPackages, max_packages)

\* C8: a feed that fails contributes no candidate, also when it fails part-way
\* through its items: if the primary feed fails and the secondary feed
\* succeeds with candidates, the result is the secondary feed's candidates in
\* first-seen order (truncated to max_packages).
C8_FailedFeedContributesNothing ==
    (/\ rss_result.called
     /\ FeedFails(rss_primary)
     /\ CandidatesOf(rss_secondary) # <<>>)
        => rss_result.value = Take(CandidatesOf(rss_secondary), max_packages)

\* C9: the sequence get_recent_packages_from_rss returns has at most
\* max_packages entries, holds no identifier twice, and lists its identifiers
\* in the order of their first occurrence in the source it was taken from
\* (the primary feed, the secondary feed or the fallback list).
C9_ResolvedList ==
    rss_result.called =>
        /\ Len(rss_result.value) <= max_packages
        /\ NoDuplicates(rss_result.value)
        /\ \E src \in {NamesIn(rss_primary.items), NamesIn(rss_secondary.items),
                       PopularPackages} :
              InFirstOccurrenceOrder(rss_result.value, src)

\* Days from 0001-01-01 to the date, plus one (date.toordinal)
IsLeap(y) == (y % 4 = 0 /\ y % 100 # 0) \/ y % 400 = 0

DaysBeforeMonth(y, mo) ==
    LET lengths == <<31, IF IsLeap(y) THEN 29 ELSE 28, 31, 30, 31, 30, 31, 31,
                     30, 31, 30, 31>>
        sum[k \in 0..12] == IF k = 0 THEN 0 ELSE sum[k - 1] + lengths[k]
    IN  sum[mo - 1]

ToOrdinal(y, mo, d) ==
    (y - 1) * 365 + ((y - 1) \div 4) - ((y - 1) \div 100) + ((y - 1) \div 400)
        + DaysBeforeMonth(y, mo) + d

\* The instant a timestamp with a UTC offset denotes: <<minutes of UTC since
\* 0001-01-01, seconds, microseconds>>
Instant(text) ==
    <<ToOrdinal(text.y, text.mo, text.d) * 1440 + text.h * 60 + text.mi
          - text.tzmin,
      text.s, text.us>>

\* The cutoff instant 2025-07-01T00:00:00Z
CutoffInstant == <<ToOrdinal(CutoffYear, CutoffMonth, CutoffDay) * 1440, 0, 0>>

WithOffset(text) == text.form = "iso" /\ text.tz \in {"Z", "offset"}

\* C10: for every upload timestamp t of the latest version's first release
\* file, is_updated_since_july_2025 returns True exactly when t >= the cutoff
\* instant 2025-07-01T00:00:00Z: a timestamp equal to the cutoff is eligible,
\* one a microsecond earlier is not.
C10_EligibleFromCutoff ==
    (/\ el_result.called
     /\ el_info.has_info /\ el_info.has_version /\ el_info.has_releases
     /\ el_info.listed /\ el_info.files # <<>>
     /\ el_info.files[1].has_time
     /\ WithOffset(el_info.files[1].upload_time))
        => (el_result.value
               <=> LexGE(Instant(el_info.files[1].upload_time), CutoffInstant))

\* A descriptor one of whose info, version, releases or upload-timestamp
\* fields is missing, null or not a timestamp
Malformed(package_info) ==
    \/ ~package_info.has_info \/ ~package_info.has_version
    \/ ~package_info.has_releases
    \/ package_info.null_key # ""
    \/ /\ package_info.listed
       /\ package_info.files # <<>>
       /\ \/ ~package_info.files[1].has_time
          \/ package_info.files[1].upload_time.form # "iso"

\* C11: for every descriptor whose info, version, releases or upload-timestamp
\* field is missing, null or of an unexpected shape, is_updated_since_july_2025
\* returns not-eligible without raising.
C11_MalformedIsNotEligible ==
    (el_result.called /\ Malformed(el_info))
        => (~el_result.raised /\ ~el_result.value)

\* The session has ended: crawl_and_download returned or an exception left it
SessionEnded == pc \in {"done", "crashed"}

\* C12: every session writes the manifest exactly once before it ends, a
\* session whose candidate list is empty included.
C12_ReportWrittenOnce == SessionEnded => Len(report) = 1

\* C13: a candidate's name is appended to the downloaded list only if an
\* artifact for it was fetched and written by the download_package call of
\* this iteration; a candidate whose file was already in the store is not
\* recorded.
C13_RecordedOnlyIfWritten ==
    [][Len(downloaded_packages') > Len(downloaded_packages)
           => (last'.called /\ last'.out.wrote)]_vars

\* C14: between any two consecutive candidates the fixed delay occurs,
\* whatever the outcome of the earlier one: the metadata request of every
\* candidate but the first directly follows a sleep.
C14_DelayBetweenCandidates ==
    \A k \in 2..Len(events) :
        events[k][1] = "fetch" => events[k - 1][1] = "sleep"

\* The latest download_package call left the consumed total and the store
\* (artifacts and sidecars) as it found them
LeftUntouched ==
    /\ last.out.total = last.before_total
    /\ last.out.store = last.before_store
    /\ last.out.sidecars = last.before_sidecars

\* C15: a download_package call whose selected file is already in the store
\* issues no download request and leaves current_total_size and the store
\* (artifact and sidecar) unchanged.
C15_ExistingFileUntouched ==
    (Selected /\ ChosenFile.filename \in last.before_store)
        => (~last.out.requested /\ ~last.out.wrote /\ LeftUntouched)

\* A session with budget consumed meets a stored file and returns success
C15_Witness ==
    /\ Selected /\ ChosenFile.filename \in last.before_store
    /\ last.out.result
    /\ last.before_total > 0
    /\ current_total_size = last.before_total
    /\ store = last.before_store

\* C16: a selected file that is not in the store is admitted (the download
\* request is issued) exactly when consumed + size <= the aggregate cap, so a
\* file that fills the cap exactly is admitted; when it is refused the call
\* returns non-success, issues no request, leaves the total and the store
\* unchanged, and the driver goes on with the loop.
C16_AdmittedIffFits ==
    (Selected /\ ChosenFile.filename \notin last.before_store)
        => /\ last.out.requested
                <=> last.before_total + DeclaredSize(ChosenFile)
                        <= MB(MaxTotalSizeMb)
           /\ ~last.out.requested
                => /\ ~last.out.result
                   /\ LeftUntouched
                   /\ events[Len(events)][1] = "sleep" => pc # "crashed"

\* A file that fills the cap exactly was fetched and written
C16_Witness ==
    /\ Selected /\ ChosenFile.filename \notin last.before_store
    /\ last.before_total > 0
    /\ last.before_total + DeclaredSize(ChosenFile) = MB(MaxTotalSizeMb)
    /\ last.out.requested /\ last.out.wrote
    /\ current_total_size = MB(MaxTotalSizeMb)

\* A file that does not fit was refused and the loop body ran to its end
C16_RefusedWitness ==
    /\ Selected /\ ChosenFile.filename \notin last.before_store
    /\ ~last.out.requested
    /\ events[Len(events)] = <<"sleep", idx - 1>>
    /\ pc = "loop"

\* C17: the cutoff is one fixed instant: two descriptors whose upload
\* timestamps denote the same instant, written with different UTC offsets, get
\* the same result from is_updated_since_july_2025.
C17_SameInstantSameResult ==
    (/\ el_result.called
     /\ ~Malformed(el_info) /\ el_info.listed /\ el_info.files # <<>>
     /\ WithOffset(el_info.files[1].upload_time))
        => \A u \in EligTimes :
              (/\ WithOffset(u)
               /\ Instant(u) = Instant(el_info.files[1].upload_time))
                  => IsUpdatedSinceJuly2025(
                         Descriptor(<<TimedFile(u)>>, TRUE, TRUE))
                       = el_result.value

\* C18: current_total_size never decreases within a session, whatever size a
\* release file declares (missing, zero and negative included).
C18_TotalNeverDecreases == [][current_total_size' >= current_total_size]_vars

RECURSIVE SumDeclared(_)
\* The sum of the declared sizes of a sequence of release files
SumDeclared(files) ==
    IF files = <<>> THEN 0
    ELSE DeclaredSize(Head(files)) + SumDeclared(Tail(files))

\* C19: current_total_size is the sum of the declared sizes of the artifacts
\* fetched and written in this session; files that were already in the store
\* and downloads that failed contribute nothing.
C19_TotalIsSumOfWritten == current_total_size = SumDeclared(written)

\* Two files were written, after which a stored file was met (or a fetch
\* failed) and added nothing
C19_Witness ==
    /\ Len(written) = 2
    /\ current_total_size = SumDeclared(written)
    /\ current_total_size > 0
    /\ Selected /\ ~last.out.wrote
    /\ \/ ChosenFile.filename \in last.before_store
       \/ last.out.requested /\ last.net = "fail"

\* C20: whenever download_package returns non-success, the store and
\* current_total_size are as before the call, also when the failure occurs
\* while the sidecar is saved after the artifact was written.
C20_FailureLeavesState ==
    (last.called /\ ~last.out.result) => LeftUntouched

====
